---- MODULE Spec2Model ----
(***************************************************************************)
(* Model of smart_merge.py: reversible vertex welding of one mesh object.  *)
(* Vertex ids are 0-based as in the source; sequences are 1-based, so the  *)
(* vertex with id i is coords[i + 1].  Coordinates are points of an        *)
(* integer lattice and a threshold t is a radius of t lattice units.       *)
(***************************************************************************)
EXTENDS Integers, Sequences, FiniteSets, TLC

VARIABLES
    obj_data,   \* obj.data: the object's mesh, [verts, faces]
    obj_props,  \* the object's custom properties (obj[...]), a function on keys
    active,     \* what context.active_object is: "MESH", "EMPTY" or "NONE"
    scene,      \* objects linked to the collection by restore, in order
    merge_run,  \* locals of the latest smart_merge_topo call (NoRun before one)
    last_op,    \* the operator that ran last
    status,     \* what it returned: "FINISHED", "CANCELLED" or "EXCEPTION"
    message,    \* what it printed last
    merges,     \* number of smart_merge_topo calls so far
    edits       \* number of host edits of the mesh so far

vars == <<obj_data, obj_props, active, scene, merge_run, last_op, status, message,
          merges, edits>>

----------------------------------------------------------------------------
(* Bounds *)

\* any mesh handed to one merge
MaxVerts == 4
MaxCoord == 2
MaxCoordY == 1
MaxFaces == 2
MaxThreshold == 1
\* the mesh of an object followed through merges, edits and restores
MaxObjVerts == 3
MaxObjFaces == 1
MaxMerges == 2
MaxEdits == 2
MaxRestored == 1

----------------------------------------------------------------------------
(* Helpers over sequences and dictionaries *)

Ids(n) == 0 .. (n - 1)

Elems(s) == {s[k] : k \in 1 .. Len(s)}

Min(S) == CHOOSE x \in S : \A y \in S : x <= y

RECURSIVE sorted(_)
sorted(S) == IF S = {} THEN << >> ELSE <<Min(S)>> \o sorted(S \ {Min(S)})

EmptyDict == [k \in {} |-> 0]

\* d[k] = v of a Python dict
Put(d, k, v) == [x \in (DOMAIN d) \cup {k} |-> IF x = k THEN v ELSE d[x]]

Values(d) == {d[k] : k \in DOMAIN d}

\* str(i) of a non-negative int
Digit == <<"0", "1", "2", "3", "4", "5", "6", "7", "8", "9">>

RECURSIVE str(_)
str(i) == IF i < 10 THEN Digit[i + 1] ELSE str(i \div 10) \o Digit[(i % 10) + 1]

----------------------------------------------------------------------------
(* Meshes *)

Coords == {<<x, y, 0>> : x \in 0 .. MaxCoord, y \in 0 .. MaxCoordY}

DistSq(a, b) ==
    (a[1] - b[1]) * (a[1] - b[1]) + (a[2] - b[2]) * (a[2] - b[2])
        + (a[3] - b[3]) * (a[3] - b[3])

\* the merge distances tried: 0 stands for any distance below the lattice
\* spacing, which welds coincident vertices only
Thresholds == 0 .. MaxThreshold

MERGE_TAG == "_smart_merge_topo_data"

\* KDTree.find_range(co, radius) over the tree built from coords: every
\* inserted point within the closed ball, as (co, index, dist) triples
find_range(coords, co, threshold) ==
    {<<coords[i + 1], i, DistSq(coords[i + 1], co)>> :
        i \in {j \in Ids(Len(coords)) :
                  DistSq(coords[j + 1], co) <= threshold * threshold}}

\* list(set(...)): the iteration order of a set is not defined, and of the
\* order only the first element is read, so the orders are enumerated up to
\* the order of the tail
list_of_set(S) == {<<f>> \o sorted(S \ {f}) : f \in S}

\* the clustering loop from vertex i on: every list of groups it can build
RECURSIVE cluster(_, _, _, _, _)
cluster(coords, threshold, i, visited, groups) ==
    IF i >= Len(coords) THEN {groups}
    ELSE IF i \in visited THEN cluster(coords, threshold, i + 1, visited, groups)
    ELSE LET close == find_range(coords, coords[i + 1], threshold)
             S == {t[2] : t \in close}
         IN  UNION {cluster(coords, threshold, i + 1, visited \cup S,
                            Append(groups, indices)) :
                       indices \in list_of_set(S)}

\* lines 60-61: every member of the group gets the group's keeper
RECURSIVE assign_group(_, _, _, _)
assign_group(merge_map, group, k, keeper) ==
    IF k > Len(group) THEN merge_map
    ELSE assign_group(Put(merge_map, str(group[k]), keeper), group, k + 1, keeper)

\* lines 57-61: the keeper of a group is its first element; later groups
\* overwrite the entries of earlier ones
RECURSIVE build_merge_map(_, _, _)
build_merge_map(groups, g, merge_map) ==
    IF g > Len(groups) THEN merge_map
    ELSE build_merge_map(groups, g + 1,
                         assign_group(merge_map, groups[g], 1, groups[g][1]))

\* a keeper set of the ids that are their own keeper only
keeper_set_of_own(merge_map) == {k \in Values(merge_map) : merge_map[str(k)] = k}

\* line 66
keeper_set_of(merge_map) == Values(merge_map)

\* lines 67-70: keepers get the next compact id, in ascending id order
RECURSIVE compact(_, _, _, _, _)
compact(original_coords, keeper_set, i, idx_map, new_verts) ==
    IF i >= Len(original_coords) THEN [idx_map |-> idx_map, new_verts |-> new_verts]
    ELSE IF i \in keeper_set
         THEN compact(original_coords, keeper_set, i + 1,
                      Put(idx_map, i, Len(new_verts)),
                      Append(new_verts, original_coords[i + 1]))
         ELSE compact(original_coords, keeper_set, i + 1, idx_map, new_verts)

\* lines 72-77: every id is sent to the compact id of its keeper, in place;
\* a keeper without a compact id is reported and skipped
RECURSIVE remap(_, _, _, _, _)
remap(merge_map, n, i, idx_map, warnings) ==
    IF i >= n THEN [idx_map |-> idx_map, warnings |-> warnings]
    ELSE LET merge_to == merge_map[str(i)]
         IN  IF merge_to \notin DOMAIN idx_map
             THEN remap(merge_map, n, i + 1, idx_map, warnings \cup {i})
             ELSE remap(merge_map, n, i + 1, Put(idx_map, i, idx_map[merge_to]), warnings)

\* line 83
rewrite_face(face, idx_map) == [k \in 1 .. Len(face) |-> idx_map[face[k]]]

\* a test that lets every face through
not_degenerate_none(new_face) == Len(new_face) >= 0

\* line 84: len(set(new_face)) == len(new_face)
not_degenerate(new_face) == Cardinality(Elems(new_face)) = Len(new_face)

\* lines 81-85
RECURSIVE rebuild_faces(_, _, _, _)
rebuild_faces(original_faces, idx_map, f, new_faces) ==
    IF f > Len(original_faces) THEN new_faces
    ELSE LET new_face == rewrite_face(original_faces[f], idx_map)
         IN  rebuild_faces(original_faces, idx_map, f + 1,
                           IF not_degenerate(new_face)
                           THEN Append(new_faces, new_face) ELSE new_faces)

NoRun == [raised |-> "never run"]

\* lines 37-85 for one outcome of the clustering loop: the locals at the end
\* of the call, or the exception that ends it early
merge_locals(original_coords, original_faces, threshold, groups) ==
    LET n == Len(original_coords)
        base == [threshold |-> threshold, original_coords |-> original_coords,
                 original_faces |-> original_faces, groups |-> groups]
    IN  IF \E g \in 1 .. Len(groups) : groups[g] = << >>
        THEN [raised |-> "IndexError"] @@ base
        ELSE LET merge_map == build_merge_map(groups, 1, EmptyDict)
             IN  IF \E i \in Ids(n) : str(i) \notin DOMAIN merge_map
                 THEN [raised |-> "KeyError", merge_map |-> merge_map] @@ base
                 ELSE LET c == compact(original_coords, keeper_set_of(merge_map),
                                       0, EmptyDict, << >>)
                          r == remap(merge_map, n, 0, c.idx_map, {})
                          rest == [merge_map |-> merge_map, idx_map |-> r.idx_map,
                                   new_verts |-> c.new_verts,
                                   warnings |-> r.warnings] @@ base
                      IN  IF \E f \in 1 .. Len(original_faces) :
                                \E k \in 1 .. Len(original_faces[f]) :
                                    original_faces[f][k] \notin DOMAIN r.idx_map
                          THEN [raised |-> "KeyError"] @@ rest
                          ELSE [raised |-> "none",
                                new_faces |-> rebuild_faces(original_faces, r.idx_map,
                                                            1, << >>)] @@ rest

\* every outcome of lines 37-85 on a mesh
smart_merge_locals(mesh, threshold) ==
    {merge_locals(mesh.verts, mesh.faces, threshold, groups) :
        groups \in cluster(mesh.verts, threshold, 0, {}, << >>)}

----------------------------------------------------------------------------
(* The record store *)

\* json.dumps of the record: the int keys of the mapping become strings
json_dumps(mapping, original_coords, original_faces) ==
    [json |-> [mapping |-> [s \in {str(i) : i \in DOMAIN mapping} |->
                               mapping[CHOOSE i \in DOMAIN mapping : str(i) = s]],
               original_coords |-> original_coords,
               original_faces |-> original_faces]]

\* json.loads: the keys stay strings
json_loads(blob) == blob.json

\* a store that leaves a record already present in place
store_merge_data_keep(props, mapping, original_coords, original_faces) ==
    IF MERGE_TAG \in DOMAIN props THEN props
    ELSE Put(props, MERGE_TAG, json_dumps(mapping, original_coords, original_faces))

store_merge_data(props, mapping, original_coords, original_faces) ==
    Put(props, MERGE_TAG, json_dumps(mapping, original_coords, original_faces))

NoData == [none |-> TRUE]

load_merge_data(props) ==
    IF MERGE_TAG \notin DOMAIN props THEN NoData ELSE json_loads(props[MERGE_TAG])

----------------------------------------------------------------------------
(* Restore *)

\* a loop that counts the positions from the end of the array
RECURSIVE restore_coords_from_end(_, _, _, _, _)
restore_coords_from_end(mapping, n, current_positions, i, restored_coords) ==
    IF i >= n THEN [raised |-> "none", restored_coords |-> restored_coords]
    ELSE IF str(i) \notin DOMAIN mapping THEN [raised |-> "KeyError"]
    ELSE LET mapped == mapping[str(i)]
         IN  IF mapped >= Len(current_positions) THEN [raised |-> "IndexError"]
             ELSE restore_coords_from_end(mapping, n, current_positions, i + 1,
                     Append(restored_coords,
                            current_positions[Len(current_positions) - mapped]))

\* lines 110-112: the restored coordinates, or the exception a lookup raises
RECURSIVE restore_coords(_, _, _, _, _)
restore_coords(mapping, n, current_positions, i, restored_coords) ==
    IF i >= n THEN [raised |-> "none", restored_coords |-> restored_coords]
    ELSE IF str(i) \notin DOMAIN mapping THEN [raised |-> "KeyError"]
    ELSE LET mapped == mapping[str(i)]
         IN  IF mapped >= Len(current_positions) THEN [raised |-> "IndexError"]
             ELSE restore_coords(mapping, n, current_positions, i + 1,
                                 Append(restored_coords, current_positions[mapped + 1]))

----------------------------------------------------------------------------
(* Initial meshes *)

Reverse(s) == [k \in 1 .. Len(s) |-> s[Len(s) + 1 - k]]

\* faces over n vertices: at least 3 distinct ids, in ascending or in
\* descending order
FacesOver(n) ==
    LET asc == {sorted(S) : S \in {T \in SUBSET Ids(n) : Cardinality(T) >= 3}}
    IN  asc \cup {Reverse(f) : f \in asc}

SeqsUpTo(S, n) == UNION {[1 .. k -> S] : k \in 0 .. n}

Meshes ==
    UNION {[verts : [1 .. n -> Coords], faces : SeqsUpTo(FacesOver(n), MaxFaces)] :
              n \in 0 .. MaxVerts}

\* the smaller meshes, on the x axis
ObjMeshes ==
    UNION {[verts : [1 .. n -> {co \in Coords : co[2] = 0}],
            faces : SeqsUpTo(FacesOver(n), MaxObjFaces)] :
              n \in 0 .. MaxObjVerts}

Fresh ==
    /\ obj_props = EmptyDict
    /\ active = "MESH"
    /\ scene = << >>
    /\ merge_run = NoRun
    /\ last_op = "none"
    /\ status = "none"
    /\ message = "none"
    /\ merges = 0
    /\ edits = 0

Init == obj_data \in ObjMeshes /\ Fresh

InitMerge == obj_data \in Meshes /\ Fresh

----------------------------------------------------------------------------
(* Operators *)

\* OBJECT_OT_SmartMergeTopo.execute with smart_merge_topo
Merge(threshold) ==
    /\ merges < MaxMerges
    /\ merges' = IF active = "MESH" THEN merges + 1 ELSE merges
    /\ last_op' = "merge"
    /\ IF active = "MESH"
       THEN \E run \in smart_merge_locals(obj_data, threshold) :
              /\ merge_run' = run
              /\ IF run.raised = "none"
                 THEN /\ obj_data' = [verts |-> run.new_verts, faces |-> run.new_faces]
                      /\ obj_props' = store_merge_data(obj_props, run.idx_map,
                                                       run.original_coords,
                                                       run.original_faces)
                      /\ message' = "Smart merge successful."
                      /\ status' = "FINISHED"
                 ELSE /\ status' = "EXCEPTION"
                      /\ UNCHANGED <<obj_data, obj_props, message>>
       ELSE /\ status' = "CANCELLED"
            /\ UNCHANGED <<obj_data, obj_props, merge_run, message>>
    /\ UNCHANGED <<active, scene, edits>>

\* a restore that goes on to build an object when there is no record
smart_restore_topo_no_return(props, mesh) ==
    LET data == load_merge_data(props)
    IN  IF data = NoData
        THEN [raised |-> "none", message |-> "Smart restore complete.",
              created |-> <<[name |-> "_restored", verts |-> << >>, faces |-> << >>]>>]
        ELSE LET r == restore_coords(data.mapping, Len(data.original_coords),
                                     mesh.verts, 0, << >>)
             IN  IF r.raised # "none"
                 THEN [raised |-> r.raised, created |-> << >>]
                 ELSE [raised |-> "none", message |-> "Smart restore complete.",
                       created |-> <<[name |-> "_restored",
                                      verts |-> r.restored_coords,
                                      faces |-> data.original_faces]>>]

\* a restore that takes the faces of the merged mesh
smart_restore_topo_current_faces(props, mesh) ==
    LET data == load_merge_data(props)
    IN  IF data = NoData
        THEN [raised |-> "none", message |-> "No smart merge data found.",
              created |-> << >>]
        ELSE LET r == restore_coords(data.mapping, Len(data.original_coords),
                                     mesh.verts, 0, << >>)
             IN  IF r.raised # "none"
                 THEN [raised |-> r.raised, created |-> << >>]
                 ELSE [raised |-> "none", message |-> "Smart restore complete.",
                       created |-> <<[name |-> "_restored",
                                      verts |-> r.restored_coords,
                                      faces |-> mesh.faces]>>]

\* lines 98-121 on the object's properties and mesh: what restore does
smart_restore_topo(props, mesh) ==
    LET data == load_merge_data(props)
    IN  IF data = NoData
        THEN [raised |-> "none", message |-> "No smart merge data found.",
              created |-> << >>]
        ELSE LET r == restore_coords(data.mapping, Len(data.original_coords),
                                     mesh.verts, 0, << >>)
             IN  IF r.raised # "none"
                 THEN [raised |-> r.raised, created |-> << >>]
                 ELSE [raised |-> "none", message |-> "Smart restore complete.",
                       created |-> <<[name |-> "_restored",
                                      verts |-> r.restored_coords,
                                      faces |-> data.original_faces]>>]

\* OBJECT_OT_SmartRestoreTopo.execute with smart_restore_topo
Restore ==
    /\ Len(scene) < MaxRestored
    /\ last_op' = "restore"
    /\ IF active = "MESH"
       THEN LET r == smart_restore_topo(obj_props, obj_data)
            IN  /\ scene' = scene \o r.created
                /\ IF r.raised = "none"
                   THEN /\ status' = "FINISHED"
                        /\ message' = r.message
                   ELSE /\ status' = "EXCEPTION"
                        /\ UNCHANGED message
       ELSE /\ status' = "CANCELLED"
            /\ UNCHANGED <<scene, message>>
    /\ UNCHANGED <<obj_data, obj_props, active, merge_run, merges, edits>>

----------------------------------------------------------------------------
(* The host between two operators *)

\* the user moves vertex k of the object's mesh
MoveVertex(k, co) ==
    /\ edits < MaxEdits
    /\ k \in Ids(Len(obj_data.verts))
    /\ obj_data.verts[k + 1] # co
    /\ obj_data' = [obj_data EXCEPT !.verts[k + 1] = co]
    /\ edits' = edits + 1
    /\ last_op' = "edit"
    /\ UNCHANGED <<obj_props, active, scene, merge_run, status, message, merges>>

RemoveAt(s, k) == [j \in 1 .. (Len(s) - 1) |-> IF j < k THEN s[j] ELSE s[j + 1]]

\* the user deletes vertex k: its faces go with it and the ids above it shift
RemoveVertex(k) ==
    /\ edits < MaxEdits
    /\ k \in Ids(Len(obj_data.verts))
    /\ LET kept == SelectSeq(obj_data.faces, LAMBDA f : k \notin Elems(f))
       IN  obj_data' =
             [verts |-> RemoveAt(obj_data.verts, k + 1),
              faces |-> [f \in 1 .. Len(kept) |->
                           [j \in 1 .. Len(kept[f]) |->
                              IF kept[f][j] > k THEN kept[f][j] - 1 ELSE kept[f][j]]]]
    /\ edits' = edits + 1
    /\ last_op' = "edit"
    /\ UNCHANGED <<obj_props, active, scene, merge_run, status, message, merges>>

\* the user makes another object, or none, the active one
SetActive(a) ==
    /\ a # active
    /\ active' = a
    /\ last_op' = "select"
    /\ UNCHANGED <<obj_data, obj_props, scene, merge_run, status, message, merges, edits>>

Next ==
    \/ \E threshold \in Thresholds : Merge(threshold)
    \/ Restore
    \/ \E k \in Ids(MaxVerts), co \in Coords : MoveVertex(k, co)
    \/ \E k \in Ids(MaxVerts) : RemoveVertex(k)
    \/ \E a \in {"MESH", "EMPTY", "NONE"} : SetActive(a)

Spec == Init /\ [][Next]_vars

\* one merge of any mesh
FirstMerge(threshold) == merges = 0 /\ Merge(threshold)

NextMerge == \E threshold \in Thresholds : FirstMerge(threshold)

SpecMerge == InitMerge /\ [][NextMerge]_vars

----------------------------------------------------------------------------
(* Properties *)

\* the latest operator was a merge that ran to its end
Merged == last_op = "merge" /\ status = "FINISHED" /\ merge_run.raised = "none"

\* the latest operator was a restore that built an object
Restored ==
    last_op = "restore" /\ status = "FINISHED" /\ message = "Smart restore complete."

GroupsOf(i) == {g \in 1 .. Len(merge_run.groups) : i \in Elems(merge_run.groups[g])}

\* C3 (as claimed): after a merge, every original vertex id is in exactly
\* one of the groups the clustering loop built
C3_PartitionTotality ==
    Merged => \A i \in Ids(Len(merge_run.original_coords)) : Cardinality(GroupsOf(i)) = 1

\* C4 (as claimed): after a merge, the keeper of every group is the least
\* id of the group
C4_KeeperIsMinimum ==
    Merged => \A g \in 1 .. Len(merge_run.groups) :
                 merge_run.groups[g][1] = Min(Elems(merge_run.groups[g]))

\* C5 (as claimed): after a merge, the compact ids the stored index table
\* gives to the original ids are exactly 0 .. numKeepers - 1, numKeepers
\* being the number of vertices of the rebuilt mesh
C5_IndexCompactness ==
    Merged =>
        LET mapping == load_merge_data(obj_props).mapping
        IN  {mapping[k] : k \in DOMAIN mapping} = Ids(Len(obj_data.verts))

PairwiseDistinct(face) ==
    \A j, k \in 1 .. Len(face) : j # k => face[j] # face[k]

\* the original faces sent through the stored index table
RewrittenFaces ==
    LET data == load_merge_data(obj_props)
    IN  [f \in 1 .. Len(data.original_faces) |->
           [k \in 1 .. Len(data.original_faces[f]) |->
              data.mapping[str(data.original_faces[f][k])]]]

\* C6: after a merge, the faces of the rebuilt mesh are exactly the original
\* faces rewritten through the index table whose ids are pairwise distinct,
\* in the original order and each with its vertex order unchanged
C6_DegenerateFaceExclusion ==
    Merged => obj_data.faces = SelectSeq(RewrittenFaces, PairwiseDistinct)

\* a merge that dropped the first of two faces and kept the second
C6_Witness ==
    /\ Merged
    /\ Len(merge_run.original_faces) = 2
    /\ Len(obj_data.faces) = 1
    /\ ~PairwiseDistinct(RewrittenFaces[1])
    /\ obj_data.faces[1] = RewrittenFaces[2]

\* C10: a merge never raises and never reports a missing keeper; the index
\* table has an entry for every original id, each a valid index into the
\* rebuilt vertex array, and a restore run right after the merge raises
\* nothing and builds its object
C10_MappingTotality ==
    (last_op = "merge" /\ status # "CANCELLED") =>
        /\ merge_run.raised = "none"
        /\ merge_run.warnings = {}
        /\ DOMAIN merge_run.idx_map = Ids(Len(merge_run.original_coords))
        /\ \A i \in DOMAIN merge_run.idx_map :
              merge_run.idx_map[i] \in Ids(Len(merge_run.new_verts))
        /\ smart_restore_topo(obj_props, obj_data).raised = "none"
        /\ Len(smart_restore_topo(obj_props, obj_data).created) = 1

\* a merge in which a vertex that is the keeper of a group was itself sent
\* to another keeper by a later group
C10_Witness ==
    /\ Merged
    /\ \E k \in Values(merge_run.merge_map) : merge_run.merge_map[str(k)] # k

\* the object the latest restore built, and the record it read
RestoredObj == scene[Len(scene)]

Record == load_merge_data(obj_props)

\* C1 (as claimed): a restore after a merge, with no vertex moved, gives
\* back the original coordinate list and the original face list
C1_RoundTripExact ==
    (Restored /\ edits = 0) =>
        /\ RestoredObj.verts = Record.original_coords
        /\ RestoredObj.faces = Record.original_faces

\* the latest merge welded coincident vertices only
OnlyCoincidentWithin ==
    \A a, b \in Elems(Record.original_coords) :
        DistSq(a, b) <= merge_run.threshold * merge_run.threshold => a = b

\* C1 (amended): a restore after a merge, with no vertex moved, gives back
\* the original face list and as many vertices as the original; every
\* restored position is the original position of some vertex; and the
\* coordinate list is the original one when no two vertices at different
\* positions lie within the threshold of each other
C1_RoundTripCoincident ==
    (Restored /\ edits = 0) =>
        /\ RestoredObj.faces = Record.original_faces
        /\ Len(RestoredObj.verts) = Len(Record.original_coords)
        /\ Elems(RestoredObj.verts) \subseteq Elems(Record.original_coords)
        /\ OnlyCoincidentWithin => RestoredObj.verts = Record.original_coords

\* a restore right after a merge that welded coincident vertices
C1_Witness ==
    /\ Restored
    /\ edits = 0
    /\ OnlyCoincidentWithin
    /\ Len(obj_data.verts) < Len(Record.original_coords)
    /\ Len(obj_data.verts) >= 2
    /\ RestoredObj.verts = Record.original_coords

\* C2: a restore gives a mesh of N = len(original_coords) vertices, vertex i
\* at the current position of the merged-mesh vertex the stored index table
\* names for i, with the stored original faces
C2_RestoreReflectsEdits ==
    Restored =>
        /\ Len(RestoredObj.verts) = Len(Record.original_coords)
        /\ \A i \in Ids(Len(Record.original_coords)) :
              RestoredObj.verts[i + 1] = obj_data.verts[Record.mapping[str(i)] + 1]
        /\ \A i, j \in Ids(Len(Record.original_coords)) :
              Record.mapping[str(i)] = Record.mapping[str(j)]
                  => RestoredObj.verts[i + 1] = RestoredObj.verts[j + 1]
        /\ RestoredObj.faces = Record.original_faces

\* a restore after a merge that welded two vertices and dropped a face, and
\* a move of a vertex of the merged mesh
C2_Witness ==
    /\ Restored
    /\ edits > 0
    /\ Len(obj_data.verts) = Len(merge_run.new_verts)
    /\ obj_data.verts # merge_run.new_verts
    /\ Len(obj_data.verts) < Len(Record.original_coords)
    /\ RestoredObj.verts # Record.original_coords
    /\ RestoredObj.faces # obj_data.faces

\* C7: a restore, whatever its outcome, leaves the object's mesh and record
\* as they were; a restore that succeeds adds one object, and a restore of
\* an object without a record, or with no mesh object active, adds none
C7_RestoreFrame ==
    [][last_op' = "restore" =>
          /\ obj_data' = obj_data
          /\ obj_props' = obj_props
          /\ Restored' => /\ Len(scene') = Len(scene) + 1
                          /\ SubSeq(scene', 1, Len(scene)) = scene
          /\ (active # "MESH" \/ MERGE_TAG \notin DOMAIN obj_props) => scene' = scene]_vars

\* a restore that built an object from the record of a merge
C7_Witness ==
    /\ Restored
    /\ Len(scene) = 1
    /\ MERGE_TAG \in DOMAIN obj_props
    /\ merges >= 1

\* C8 (as claimed): a restore never ends in an exception that nothing in
\* the operation handles
C8_InconsistentRecordHandled ==
    last_op = "restore" => status \in {"FINISHED", "CANCELLED"}

\* C9: a merge that runs stores the object's vertices and faces of just
\* before it as the record, in place of any earlier record, with every face
\* id an index into the stored coordinates, and leaves the object with the
\* keepers' coordinates in ascending id order; nothing else writes the record
C9_RecordFollowsLatestMerge ==
    [][/\ merges' = merges + 1 =>
            /\ status' = "FINISHED"
            /\ load_merge_data(obj_props').original_coords = obj_data.verts
            /\ load_merge_data(obj_props').original_faces = obj_data.faces
            /\ \A f \in 1 .. Len(load_merge_data(obj_props').original_faces) :
                  Elems(load_merge_data(obj_props').original_faces[f])
                      \subseteq Ids(Len(load_merge_data(obj_props').original_coords))
            /\ LET keepers == sorted(Values(merge_run'.merge_map))
               IN  obj_data'.verts = [j \in 1 .. Len(keepers) |->
                                         obj_data.verts[keepers[j] + 1]]
       /\ merges' = merges => obj_props' = obj_props]_vars

\* a second merge of the object, which welded the two vertices left
C9_Witness ==
    /\ merges = 2
    /\ Merged
    /\ Len(Record.original_coords) = 2
    /\ Len(obj_data.verts) = 1

====
